---------------------------- MODULE Spec2Model ----------------------------
(***************************************************************************)
(* Model of lib/src/tree.rs: the tree view, the recursive entries walker,  *)
(* the recursive diff walker, the three-way tree merge and the conflict    *)
(* simplification.                                                         *)
(*                                                                         *)
(* The store (store_wrapper.rs / store.rs), the matchers (matchers.rs),    *)
(* RepoPath (repo_path.rs) and the file content merge (files.rs) are used  *)
(* by tree.rs but are not part of it; they are modelled from their         *)
(* contracts in the specification (section 6).                             *)
(***************************************************************************)
EXTENDS Naturals, Sequences, FiniteSets, TLC

VARIABLES
    store,        \* the StoreWrapper: trees, files and conflicts by id
    pc,           \* which operation of tree.rs is running / has returned
    roots,        \* the Tree views an operation was called with
    matcher,      \* the Matcher handed to Tree::diff
    entriesIter,  \* TreeEntriesIter: its stack of (tree, cursor) frames
    diffIter,     \* TreeDiffIterator: the chain self -> subdir_iterator -> ...
    yielded,      \* the items the walker's next() has returned so far
    conflict,     \* the argument of the last simplify_conflict call
    flat,         \* new_adds / new_removes after the expand phase
    ret           \* what the last call returned

vars == <<store, pc, roots, matcher, entriesIter, diffIter, yielded,
          conflict, flat, ret>>

---------------------------------------------------------------------------
(* Bounds of the model.                                                    *)

MaxAdds == 2
MaxRemoves == 1
MaxConflicts == 1
MaxDepth == 3
EntriesMaxLeaves == 3
DiffMaxLeaves == 2
DiffMaxTotal == 3
MergeDepth == 2
MergeMaxLeaves == 1
MergeWideLeaves == 2
MergeWideTotal == 4

---------------------------------------------------------------------------
(* store.rs: TreeValue, ConflictPart, Conflict.                            *)

Normal(id, executable) == [kind |-> "Normal", id |-> id, executable |-> executable]
Symlink(id) == [kind |-> "Symlink", id |-> id, executable |-> FALSE]
TreeV(id) == [kind |-> "Tree", id |-> id, executable |-> FALSE]
ConflictV(id) == [kind |-> "Conflict", id |-> id, executable |-> FALSE]

\* Option<TreeValue>::None, in the shape of a value so that Options compare.
None == [kind |-> "None", id |-> 0, executable |-> FALSE]

ConflictPart(v) == [value |-> v]

Conflict(removes, adds) == [removes |-> removes, adds |-> adds]

\* Conflict::default()
ConflictDefault == Conflict(<<>>, <<>>)

\* Result<_, StoreError>
Ok(v) == [tag |-> "Ok", value |-> v]
Err == [tag |-> "Err", value |-> None]
\* An unwrap() of an Err, an assert that fails, a panic!(): the thread unwinds.
Panic == [tag |-> "Panic", value |-> None]

---------------------------------------------------------------------------
(* Sequence helpers (Vec operations).                                      *)

\* Vec::remove(index), 1-based
RemoveAt(s, i) == SubSeq(s, 1, i - 1) \o SubSeq(s, i + 1, Len(s))

SeqsUpTo(S, n) == UNION {[1..k -> S] : k \in 0..n}

Range(s) == {s[i] : i \in DOMAIN s}

---------------------------------------------------------------------------
(* StoreWrapper: conflicts.  Ids are positions in the store; writing a     *)
(* conflict that is already stored returns its id (content addressing).    *)

read_conflict(st, id) ==
    IF id \in 1..Len(st.conflicts) THEN Ok(st.conflicts[id]) ELSE Err

write_conflict(st, c) ==
    IF \E i \in 1..Len(st.conflicts) : st.conflicts[i] = c
    THEN [store |-> st,
          id |-> CHOOSE i \in 1..Len(st.conflicts) : st.conflicts[i] = c]
    ELSE [store |-> [st EXCEPT !.conflicts = Append(@, c)],
          id |-> Len(st.conflicts) + 1]

---------------------------------------------------------------------------
(* simplify_conflict                                                       *)

conflict_part_to_conflict(st, part) ==
    IF part.value.kind = "Conflict"
    THEN read_conflict(st, part.value.id)
    ELSE Ok(Conflict(<<>>, <<part>>))

\* The first loop with no expansion: every part of adds is pushed as it is.
RECURSIVE ExpandAddsNoSplice(_, _, _, _)
ExpandAddsNoSplice(st, parts, i, acc) ==
    IF ~acc.ok \/ i > Len(parts) THEN acc
    ELSE ExpandAddsNoSplice(st, parts, i + 1,
            [acc EXCEPT !.new_adds = Append(@, parts[i])])

\* The first loop of the expand phase: for part in &conflict.adds.
\* acc is [ok, new_removes, new_adds]; a failed read returns early (the ?).
RECURSIVE ExpandAdds(_, _, _, _)
ExpandAdds(st, parts, i, acc) ==
    IF ~acc.ok \/ i > Len(parts) THEN acc
    ELSE IF parts[i].value.kind = "Conflict"
         THEN LET r == conflict_part_to_conflict(st, parts[i])
              IN IF r.tag # "Ok" THEN [acc EXCEPT !.ok = FALSE]
                 ELSE ExpandAdds(st, parts, i + 1,
                        [acc EXCEPT !.new_removes = @ \o r.value.removes,
                                    !.new_adds = @ \o r.value.adds])
         ELSE ExpandAdds(st, parts, i + 1,
                [acc EXCEPT !.new_adds = Append(@, parts[i])])

\* The second loop expanding a nested conflict with its signs kept.
RECURSIVE ExpandRemovesKeepSigns(_, _, _, _)
ExpandRemovesKeepSigns(st, parts, i, acc) ==
    IF ~acc.ok \/ i > Len(parts) THEN acc
    ELSE IF parts[i].value.kind = "Conflict"
         THEN LET r == conflict_part_to_conflict(st, parts[i])
              IN IF r.tag # "Ok" THEN [acc EXCEPT !.ok = FALSE]
                 ELSE ExpandRemovesKeepSigns(st, parts, i + 1,
                        [acc EXCEPT !.new_removes = @ \o r.value.removes,
                                    !.new_adds = @ \o r.value.adds])
         ELSE ExpandRemovesKeepSigns(st, parts, i + 1,
                [acc EXCEPT !.new_removes = Append(@, parts[i])])

\* The second loop: for part in &conflict.removes, with the signs inverted.
RECURSIVE ExpandRemoves(_, _, _, _)
ExpandRemoves(st, parts, i, acc) ==
    IF ~acc.ok \/ i > Len(parts) THEN acc
    ELSE IF parts[i].value.kind = "Conflict"
         THEN LET r == conflict_part_to_conflict(st, parts[i])
              IN IF r.tag # "Ok" THEN [acc EXCEPT !.ok = FALSE]
                 ELSE ExpandRemoves(st, parts, i + 1,
                        [acc EXCEPT !.new_removes = @ \o r.value.adds,
                                    !.new_adds = @ \o r.value.removes])
         ELSE ExpandRemoves(st, parts, i + 1,
                [acc EXCEPT !.new_removes = Append(@, parts[i])])

\* The expansion with its two loops in the other order.
ExpandRemovesFirst(st, c) ==
    ExpandAdds(st, c.adds, 1,
        ExpandRemoves(st, c.removes, 1,
            [ok |-> TRUE, new_removes |-> <<>>, new_adds |-> <<>>]))

\* "First expand any diffs with nested conflicts."
Expand(st, c) ==
    ExpandRemoves(st, c.removes, 1,
        ExpandAdds(st, c.adds, 1,
            [ok |-> TRUE, new_removes |-> <<>>, new_adds |-> <<>>]))

\* new_removes.iter().enumerate() up to the first remove.value == add.value;
\* 0 when the inner for loop ends without a match.
FirstMatch(new_removes, add) ==
    IF \E j \in 1..Len(new_removes) : new_removes[j].value = add.value
    THEN CHOOSE j \in 1..Len(new_removes) :
            /\ new_removes[j].value = add.value
            /\ \A k \in 1..(j - 1) : new_removes[k].value # add.value
    ELSE 0

\* The cancellation without its "add_index -= 1": after a pair is removed
\* the loop steps over the add that moved into the freed position.
RECURSIVE CancelPairsNoRewind(_, _, _)
CancelPairsNoRewind(new_adds, new_removes, add_index) ==
    IF add_index > Len(new_adds)
    THEN [new_removes |-> new_removes, new_adds |-> new_adds]
    ELSE LET remove_index == FirstMatch(new_removes, new_adds[add_index])
         IN IF remove_index = 0
            THEN CancelPairsNoRewind(new_adds, new_removes, add_index + 1)
            ELSE CancelPairsNoRewind(RemoveAt(new_adds, add_index),
                                     RemoveAt(new_removes, remove_index),
                                     add_index + 1)

\* The cancellation without its "new_removes.remove(remove_index)": the
\* matched add goes, the remove stays.
RECURSIVE CancelPairsKeepRemove(_, _, _)
CancelPairsKeepRemove(new_adds, new_removes, add_index) ==
    IF add_index > Len(new_adds)
    THEN [new_removes |-> new_removes, new_adds |-> new_adds]
    ELSE LET remove_index == FirstMatch(new_removes, new_adds[add_index])
         IN IF remove_index = 0
            THEN CancelPairsKeepRemove(new_adds, new_removes, add_index + 1)
            ELSE CancelPairsKeepRemove(RemoveAt(new_adds, add_index),
                                       new_removes, add_index)

\* The cancellation that stops at the first pair it removes.
CancelPairsOnce(new_adds, new_removes, add_index) ==
    IF \E i \in add_index..Len(new_adds) : FirstMatch(new_removes, new_adds[i]) # 0
    THEN LET i == CHOOSE k \in add_index..Len(new_adds) :
                      /\ FirstMatch(new_removes, new_adds[k]) # 0
                      /\ \A j \in add_index..(k - 1) :
                            FirstMatch(new_removes, new_adds[j]) = 0
         IN [new_removes |-> RemoveAt(new_removes,
                                      FirstMatch(new_removes, new_adds[i])),
             new_adds |-> RemoveAt(new_adds, i)]
    ELSE [new_removes |-> new_removes, new_adds |-> new_adds]

\* "Remove pairs of entries that match in the removes and adds."
\* add_index is the position the while loop is about to read (1-based).
RECURSIVE CancelPairs(_, _, _)
CancelPairs(new_adds, new_removes, add_index) ==
    IF add_index > Len(new_adds)
    THEN [new_removes |-> new_removes, new_adds |-> new_adds]
    ELSE LET remove_index == FirstMatch(new_removes, new_adds[add_index])
         IN IF remove_index = 0
            THEN CancelPairs(new_adds, new_removes, add_index + 1)
            ELSE CancelPairs(RemoveAt(new_adds, add_index),
                             RemoveAt(new_removes, remove_index), add_index)

\* The collapse that takes the path to be absent only when both lists are
\* empty.
CollapseNoneWhenBothEmpty(st, lists) ==
    IF lists.new_adds = <<>> /\ lists.new_removes = <<>>
    THEN [ret |-> Ok(None), store |-> st]
    ELSE IF lists.new_removes = <<>> /\ Len(lists.new_adds) = 1
         THEN [ret |-> Ok(lists.new_adds[1].value), store |-> st]
         ELSE LET w == write_conflict(st,
                         Conflict(lists.new_removes, lists.new_adds))
              IN [ret |-> Ok(ConflictV(w.id)), store |-> w.store]

\* The collapse of the cancelled lists into the returned value.
Collapse(st, lists) ==
    IF lists.new_adds = <<>>
    THEN [ret |-> Ok(None), store |-> st]
    ELSE IF lists.new_removes = <<>> /\ Len(lists.new_adds) = 1
         THEN [ret |-> Ok(lists.new_adds[1].value), store |-> st]
         ELSE LET w == write_conflict(st,
                         Conflict(lists.new_removes, lists.new_adds))
              IN [ret |-> Ok(ConflictV(w.id)), store |-> w.store]

simplify_conflict(st, c) ==
    LET e == Expand(st, c)
    IN IF ~e.ok THEN [ret |-> Err, store |-> st]
       ELSE Collapse(st, CancelPairs(e.new_adds, e.new_removes, 1))

---------------------------------------------------------------------------
(* RepoPath and RepoPathComponent (repo_path.rs).  A component is a        *)
(* number, a path the sequence of its components; components are ordered   *)
(* by <, paths componentwise (a proper prefix sorts first).                *)

RepoPathRoot == <<>>

Join(dir, name) == Append(dir, name)

IsPrefix(p, q) == Len(p) <= Len(q) /\ SubSeq(q, 1, Len(p)) = p

\* RepoPath's Ord: p sorts strictly before q
PathLess(p, q) ==
    \/ Len(p) < Len(q) /\ SubSeq(q, 1, Len(p)) = p
    \/ \E i \in 1..Len(p) :
          /\ i <= Len(q)
          /\ SubSeq(p, 1, i - 1) = SubSeq(q, 1, i - 1)
          /\ p[i] < q[i]

---------------------------------------------------------------------------
(* StoreWrapper: trees.  A stored tree (store::Tree) is a function from    *)
(* the names it holds to their values.  Ids are positions in the store;    *)
(* the store is content addressed, so writing a tree that is stored already*)
(* returns its id.  get_tree fails for an id the store cannot read.        *)

EmptyTreeData == <<>>

\* store.empty_tree_id(): the empty tree is the first one a store holds
EmptyTreeId == 1

\* TreeId(vec![]), the id Tree::null gives its view
NullTreeId == 0

\* store::Tree::value
Value(data, basename) ==
    IF basename \in DOMAIN data THEN data[basename] ELSE None

\* store::Tree::set / store::Tree::remove
TreeSet(data, basename, v) ==
    [n \in (DOMAIN data) \cup {basename} |-> IF n = basename THEN v ELSE data[n]]

TreeRemove(data, basename) ==
    [n \in (DOMAIN data) \ {basename} |-> data[n]]

RECURSIVE SortedSeq(_)
SortedSeq(S) ==
    IF S = {} THEN <<>>
    ELSE LET m == CHOOSE x \in S : \A y \in S : x <= y
         IN <<m>> \o SortedSeq(S \ {m})

\* store::Tree::entries(): the entries in ascending order of their names
Entries(data) ==
    LET names == SortedSeq(DOMAIN data)
    IN [i \in 1..Len(names) |-> [name |-> names[i], value |-> data[names[i]]]]

\* Tree::new
Tree(dir, id, data) == [dir |-> dir, id |-> id, data |-> data]

\* Tree::null
TreeNull(dir) == Tree(dir, NullTreeId, EmptyTreeData)

get_tree(st, dir, id) ==
    IF id \in 1..Len(st.trees) /\ id \notin st.lost
    THEN Ok(Tree(dir, id, st.trees[id]))
    ELSE Err

write_tree(st, data) ==
    IF \E i \in 1..Len(st.trees) : st.trees[i] = data
    THEN [store |-> st, id |-> CHOOSE i \in 1..Len(st.trees) : st.trees[i] = data]
    ELSE [store |-> [st EXCEPT !.trees = Append(@, data)],
          id |-> Len(st.trees) + 1]

---------------------------------------------------------------------------
(* Tree: sub_tree, known_sub_tree, sub_tree_recursive, path_value.         *)
(* An Option is Some(x) or Nothing; the unwrap() of a failed get_tree is   *)
(* Panic.                                                                  *)

Some(x) == [tag |-> "Some", value |-> x]
Nothing == [tag |-> "None", value |-> None]

\* known_sub_tree handing the sub-tree back at the parent's directory
known_sub_tree_parent_dir(st, tree, name, id) ==
    LET r == get_tree(st, tree.dir, id)
    IN IF r.tag = "Ok" THEN Some(r.value) ELSE Panic

known_sub_tree(st, tree, name, id) ==
    LET r == get_tree(st, Join(tree.dir, name), id)
    IN IF r.tag = "Ok" THEN Some(r.value) ELSE Panic

sub_tree(st, tree, name) ==
    LET v == Value(tree.data, name)
    IN IF v.kind = "Tree" THEN known_sub_tree(st, tree, name, v.id) ELSE Nothing

RECURSIVE sub_tree_recursive(_, _, _)
sub_tree_recursive(st, tree, components) ==
    IF components = <<>> THEN Some(tree)
    ELSE LET v == Value(tree.data, components[1])
         IN IF v.kind # "Tree" THEN Nothing
            ELSE LET sub == known_sub_tree(st, tree, components[1], v.id)
                 IN IF sub.tag = "Panic" THEN Panic
                    ELSE sub_tree_recursive(st, sub.value, Tail(components))

\* Tree::path_value, for a tree at the root: Some(value), Nothing or Panic
path_value(st, tree, path) ==
    IF path = <<>> THEN Some(TreeV(tree.id))
    ELSE LET t == sub_tree_recursive(st, tree, SubSeq(path, 1, Len(path) - 1))
         IN IF t.tag # "Some" THEN t
            ELSE LET v == Value(t.value.data, path[Len(path)])
                 IN IF v = None THEN Nothing ELSE Some(v)

---------------------------------------------------------------------------
(* TreeEntriesIter.  The stack holds (tree, cursor) frames; the cursor is  *)
(* the number of entries of the tree's data already taken.                 *)

\* TreeEntriesIter::new
TreeEntriesIterNew(tree) == [stack |-> <<[tree |-> tree, pos |-> 0]>>]

\* What a walker's next() hands back: Some(item), Nothing or Panic, with
\* the walker as the call left it.
Walked(it, tag, item) == [it |-> it, tag |-> tag, item |-> item]

NoItem == [path |-> <<>>, kind |-> "None", before |-> None, after |-> None]

\* An item of the entries walker: (RepoPath, TreeValue)
EntryItem(path, v) == [path |-> path, kind |-> "Entry", before |-> None, after |-> v]

\* TreeEntriesIter::next
RECURSIVE TreeEntriesIterNext(_, _)
TreeEntriesIterNext(st, it) ==
    IF it.stack = <<>> THEN Walked(it, "None", NoItem)
    ELSE LET n == Len(it.stack)
             top == it.stack[n]
             ents == Entries(top.tree.data)
         IN IF top.pos >= Len(ents)
            THEN \* No more entries in this directory
                 TreeEntriesIterNext(st, [stack |-> SubSeq(it.stack, 1, n - 1)])
            ELSE LET entry == ents[top.pos + 1]
                     taken == [it EXCEPT !.stack[n].pos = @ + 1]
                 IN IF entry.value.kind = "Tree"
                    THEN LET sub == known_sub_tree(st, top.tree, entry.name,
                                                   entry.value.id)
                         IN IF sub.tag = "Panic"
                            THEN Walked(taken, "Panic", NoItem)
                            ELSE TreeEntriesIterNext(st,
                                   [stack |-> Append(taken.stack,
                                        [tree |-> sub.value, pos |-> 0])])
                    ELSE Walked(taken, "Some",
                                EntryItem(Join(top.tree.dir, entry.name),
                                          entry.value))

---------------------------------------------------------------------------
(* Matcher (matchers.rs): EverythingMatcher matches every path, a files    *)
(* matcher the paths of its set.                                           *)

EverythingMatcher == [kind |-> "Everything", files |-> {}]
FilesMatcher(files) == [kind |-> "Files", files |-> files]

Matches(m, path) == m.kind = "Everything" \/ path \in m.files

---------------------------------------------------------------------------
(* TreeEntryDiffIterator: the paired walk of two sorted entry lists.  The  *)
(* two peekable iterators are the entry lists e1, e2 and the numbers p1,   *)
(* p2 of entries taken from each.                                          *)

EntryDiff(p1, p2, tag, name, before, after) ==
    [pos1 |-> p1, pos2 |-> p2, tag |-> tag, name |-> name,
     before |-> before, after |-> after]

\* TreeEntryDiffIterator::next
RECURSIVE TreeEntryDiffIteratorNext(_, _, _, _)
TreeEntryDiffIteratorNext(e1, e2, p1, p2) ==
    IF p1 < Len(e1) /\ p2 < Len(e2)
    THEN LET before == e1[p1 + 1]
             after == e2[p2 + 1]
         IN IF before.name < after.name
            THEN \* entry removed
                 EntryDiff(p1 + 1, p2, "Some", before.name, before.value, None)
            ELSE IF before.name > after.name
            THEN \* entry added
                 EntryDiff(p1, p2 + 1, "Some", after.name, None, after.value)
            ELSE \* entry modified or clean
                 IF before.value # after.value
                 THEN EntryDiff(p1 + 1, p2 + 1, "Some", before.name,
                                before.value, after.value)
                 ELSE TreeEntryDiffIteratorNext(e1, e2, p1 + 1, p2 + 1)
    ELSE IF p1 < Len(e1)
    THEN \* second iterator exhausted
         EntryDiff(p1 + 1, p2, "Some", e1[p1 + 1].name, e1[p1 + 1].value, None)
    ELSE IF p2 < Len(e2)
    THEN \* first iterator exhausted
         EntryDiff(p1, p2 + 1, "Some", e2[p2 + 1].name, None, e2[p2 + 1].value)
    ELSE \* both iterators exhausted
         EntryDiff(p1, p2, "None", 0, None, None)

\* diff_entries(tree1, tree2, matcher), run to its end: the sequence of
\* (basename, before, after) it yields.  The matcher is not consulted.
RECURSIVE DiffEntriesFrom(_, _, _, _)
DiffEntriesFrom(e1, e2, p1, p2) ==
    LET d == TreeEntryDiffIteratorNext(e1, e2, p1, p2)
    IN IF d.tag = "None" THEN <<>>
       ELSE <<d>> \o DiffEntriesFrom(e1, e2, d.pos1, d.pos2)

diff_entries(tree1, tree2) ==
    DiffEntriesFrom(Entries(tree1.data), Entries(tree2.data), 0, 0)

---------------------------------------------------------------------------
(* TreeDiffIterator.  The walker is the chain of its frames: frames[1] is  *)
(* the iterator the caller holds, frames[i + 1] the subdir_iterator of     *)
(* frames[i] (None when i is the last).  A frame holds dir, tree1, tree2,  *)
(* the entry_iterator (pos1, pos2) and added_file.                         *)

DiffItem(path, kind, before, after) ==
    [path |-> path, kind |-> kind, before |-> before, after |-> after]

Modified(path, before, after) == DiffItem(path, "Modified", before, after)
Added(path, after) == DiffItem(path, "Added", None, after)
Removed(path, before) == DiffItem(path, "Removed", before, None)

\* TreeDiffIterator::new
TreeDiffIteratorNew(dir, tree1, tree2) ==
    [dir |-> dir, tree1 |-> tree1, tree2 |-> tree2, pos1 |-> 0, pos2 |-> 0,
     added_file |-> NoItem]

\* recursive_tree_diff / Tree::diff
recursive_tree_diff(root1, root2) ==
    <<TreeDiffIteratorNew(RepoPathRoot, root1, root2)>>

\* The sub-tree a side of a replaced entry is walked as: the stored tree
\* when the side is a tree, a null tree at the sub-directory otherwise.
SideTree(st, tree, subdir, side) ==
    IF side.kind = "Tree"
    THEN known_sub_tree(st, tree, subdir, side.id)
    ELSE Some(TreeNull(Join(tree.dir, subdir)))

\* The emission with no added_file slot: the file that replaces a directory
\* is returned at once.
EmitForNoHold(file_path, before, after) ==
    LET tree_before == before.kind = "Tree"
        tree_after == after.kind = "Tree"
    IN IF tree_before /\ tree_after THEN [do |-> "loop", item |-> NoItem]
       ELSE IF tree_after /\ before = None THEN [do |-> "loop", item |-> NoItem]
       ELSE IF tree_before /\ after = None THEN [do |-> "loop", item |-> NoItem]
       ELSE IF tree_after THEN [do |-> "return", item |-> Removed(file_path, before)]
       ELSE IF tree_before THEN [do |-> "return", item |-> Added(file_path, after)]
       ELSE IF before # None /\ after # None
       THEN [do |-> "return", item |-> Modified(file_path, before, after)]
       ELSE IF after # None THEN [do |-> "return", item |-> Added(file_path, after)]
       ELSE IF before # None THEN [do |-> "return", item |-> Removed(file_path, before)]
       ELSE [do |-> "panic", item |-> NoItem]

\* The emission that says nothing of a file replaced by a directory
EmitForNoFileRemoved(file_path, before, after) ==
    LET tree_before == before.kind = "Tree"
        tree_after == after.kind = "Tree"
    IN IF tree_after THEN [do |-> "loop", item |-> NoItem]
       ELSE IF tree_before
       THEN IF after # None
            THEN [do |-> "hold", item |-> Added(file_path, after)]
            ELSE [do |-> "loop", item |-> NoItem]
       ELSE IF before # None /\ after # None
       THEN [do |-> "return", item |-> Modified(file_path, before, after)]
       ELSE IF after # None THEN [do |-> "return", item |-> Added(file_path, after)]
       ELSE IF before # None THEN [do |-> "return", item |-> Removed(file_path, before)]
       ELSE [do |-> "panic", item |-> NoItem]

\* The emission that reports a changed file as an added one
EmitForModifiedAsAdded(file_path, before, after) ==
    LET tree_before == before.kind = "Tree"
        tree_after == after.kind = "Tree"
    IN IF tree_before /\ tree_after THEN [do |-> "loop", item |-> NoItem]
       ELSE IF tree_after
       THEN IF before # None
            THEN [do |-> "return", item |-> Removed(file_path, before)]
            ELSE [do |-> "loop", item |-> NoItem]
       ELSE IF tree_before
       THEN IF after # None
            THEN [do |-> "hold", item |-> Added(file_path, after)]
            ELSE [do |-> "loop", item |-> NoItem]
       ELSE IF after # None THEN [do |-> "return", item |-> Added(file_path, after)]
       ELSE IF before # None THEN [do |-> "return", item |-> Removed(file_path, before)]
       ELSE [do |-> "panic", item |-> NoItem]

\* What the matched entry (before, after) at file_path makes next() do:
\* "return" an item, "hold" it in added_file, "panic", or "loop" on.
EmitFor(file_path, before, after) ==
    LET tree_before == before.kind = "Tree"
        tree_after == after.kind = "Tree"
    IN IF ~tree_before /\ tree_after
       THEN IF before # None
            THEN [do |-> "return", item |-> Removed(file_path, before)]
            ELSE [do |-> "loop", item |-> NoItem]
       ELSE IF tree_before /\ ~tree_after
       THEN IF after # None
            THEN [do |-> "hold", item |-> Added(file_path, after)]
            ELSE [do |-> "loop", item |-> NoItem]
       ELSE IF ~tree_before /\ ~tree_after
       THEN IF before # None /\ after # None
            THEN [do |-> "return", item |-> Modified(file_path, before, after)]
            ELSE IF after # None
            THEN [do |-> "return", item |-> Added(file_path, after)]
            ELSE IF before # None
            THEN [do |-> "return", item |-> Removed(file_path, before)]
            ELSE [do |-> "panic", item |-> NoItem]
       ELSE [do |-> "loop", item |-> NoItem]

\* TreeDiffIterator::next of frames[i]
RECURSIVE TreeDiffIteratorNext(_, _, _, _)
TreeDiffIteratorNext(st, m, frames, i) ==
    LET \* First return results from any subdirectory we're currently visiting.
        sub == IF i < Len(frames)
               THEN TreeDiffIteratorNext(st, m, frames, i + 1)
               ELSE Walked(frames, "None", NoItem)
    IN IF sub.tag # "None" THEN sub
       ELSE LET fr == sub.it
                self == fr[i]
            IN IF self.added_file # NoItem
               THEN Walked([fr EXCEPT ![i].added_file = NoItem], "Some",
                           self.added_file)
               ELSE
    LET e == TreeEntryDiffIteratorNext(Entries(self.tree1.data),
                                       Entries(self.tree2.data),
                                       self.pos1, self.pos2)
        taken == [fr EXCEPT ![i].pos1 = e.pos1, ![i].pos2 = e.pos2]
    IN IF e.tag = "None" THEN Walked(taken, "None", NoItem)
       ELSE
    LET descend == e.before.kind = "Tree" \/ e.after.kind = "Tree"
        before_tree == SideTree(st, self.tree1, e.name, e.before)
        after_tree == SideTree(st, self.tree2, e.name, e.after)
        file_path == Join(self.dir, e.name)
    IN IF descend /\ (before_tree.tag = "Panic" \/ after_tree.tag = "Panic")
       THEN Walked(taken, "Panic", NoItem)
       ELSE
    LET entered == IF descend
                   THEN Append(SubSeq(taken, 1, i),
                               TreeDiffIteratorNew(file_path, before_tree.value,
                                                   after_tree.value))
                   ELSE taken
        emit == IF Matches(m, file_path)
                THEN EmitFor(file_path, e.before, e.after)
                ELSE [do |-> "loop", item |-> NoItem]
    IN CASE emit.do = "return" -> Walked(entered, "Some", emit.item)
         [] emit.do = "panic" -> Walked(entered, "Panic", NoItem)
         [] emit.do = "hold" ->
              TreeDiffIteratorNext(st, m,
                  [entered EXCEPT ![i].added_file = emit.item], i)
         [] OTHER -> TreeDiffIteratorNext(st, m, entered, i)

---------------------------------------------------------------------------
(* StoreWrapper: files, and files::merge (files.rs).  A file's content is  *)
(* a sequence of FileLines lines.  The content merge is the line-wise      *)
(* three-way merge of contents of equal length: a line changed on one side *)
(* only takes that side's text, a line changed the same way on both sides  *)
(* takes it, a line changed differently on the two sides is a conflict.    *)

read_file(st, id) ==
    IF id \in 1..Len(st.files) THEN Ok(st.files[id]) ELSE Err

write_file(st, content) ==
    IF \E i \in 1..Len(st.files) : st.files[i] = content
    THEN [store |-> st, id |-> CHOOSE i \in 1..Len(st.files) : st.files[i] = content]
    ELSE [store |-> [st EXCEPT !.files = Append(@, content)],
          id |-> Len(st.files) + 1]

LineConflicts(b, l1, l2) == b # l1 /\ b # l2 /\ l1 # l2

MergeLine(b, l1, l2) == IF b = l1 THEN l2 ELSE l1

\* files::merge: MergeResult::Resolved(content) or MergeResult::Conflict
files_merge(base, side1, side2) ==
    IF \E i \in DOMAIN base : LineConflicts(base[i], side1[i], side2[i])
    THEN [tag |-> "Conflict", content |-> <<>>]
    ELSE [tag |-> "Resolved",
          content |-> [i \in DOMAIN base |-> MergeLine(base[i], side1[i], side2[i])]]

---------------------------------------------------------------------------
(* merge_trees and merge_tree_value.  Both return [ret, store]: ret is     *)
(* Ok(..), Err (a StoreError passed on by ?) or Panic, store is the store  *)
(* as the call left it.  A TreeId result is carried as the Tree value of   *)
(* that id.                                                                *)

Returned(r, st) == [ret |-> r, store |-> st]

\* The executable bit always taken from side 1
MergedExecutableSide1(base_executable, side1_executable, side2_executable) ==
    Ok(side1_executable)

\* The executable bit of the merged file
MergedExecutable(base_executable, side1_executable, side2_executable) ==
    IF base_executable = side1_executable THEN Ok(side2_executable)
    ELSE IF base_executable = side2_executable THEN Ok(side1_executable)
    ELSE IF side1_executable = side2_executable THEN Ok(side1_executable)
    ELSE Panic   \* assert_eq!(side1_executable, side2_executable)

\* The arm of merge_tree_value for three regular files: maybe_merged, as
\* Ok(value), Ok(None), Err or Panic.
MergeFiles(st, base, side1, side2) ==
    LET executable == MergedExecutable(base.executable, side1.executable,
                                       side2.executable)
        base_content == read_file(st, base.id)
        side1_content == read_file(st, side1.id)
        side2_content == read_file(st, side2.id)
    IN IF executable.tag = "Panic" THEN Returned(Panic, st)
       ELSE IF base_content.tag # "Ok" \/ side1_content.tag # "Ok"
               \/ side2_content.tag # "Ok"
       THEN Returned(Err, st)
       ELSE LET merge_result == files_merge(base_content.value,
                                            side1_content.value,
                                            side2_content.value)
            IN IF merge_result.tag = "Resolved"
               THEN LET w == write_file(st, merge_result.content)
                    IN Returned(Ok(Normal(w.id, executable.value)), w.store)
               ELSE Returned(Ok(None), st)

\* The conflict merge_tree_value builds of the three sides
BuildConflict(maybe_base, maybe_side1, maybe_side2) ==
    Conflict(IF maybe_base # None THEN <<ConflictPart(maybe_base)>> ELSE <<>>,
             (IF maybe_side1 # None THEN <<ConflictPart(maybe_side1)>> ELSE <<>>)
             \o (IF maybe_side2 # None THEN <<ConflictPart(maybe_side2)>> ELSE <<>>))

RECURSIVE merge_trees(_, _, _, _)
RECURSIVE merge_tree_value(_, _, _, _, _, _)
RECURSIVE MergeEntries(_, _, _, _, _, _)

\* merge_trees with the results of its two shortcuts exchanged
merge_trees_swapped(st, side1_tree, base_tree, side2_tree) ==
    IF base_tree.id = side1_tree.id
    THEN Returned(Ok(TreeV(side1_tree.id)), st)
    ELSE IF base_tree.id = side2_tree.id \/ side1_tree.id = side2_tree.id
    THEN Returned(Ok(TreeV(side2_tree.id)), st)
    ELSE MergeEntries(st, base_tree.dir, side1_tree,
                      diff_entries(base_tree, side2_tree), 1, side1_tree.data)

\* The loop of merge_trees without its first arm: a name side 1 left as in
\* the base keeps side 1's entry.
RECURSIVE MergeEntriesKeepSide1(_, _, _, _, _, _)
MergeEntriesKeepSide1(st, dir, side1_tree, diffs, k, new_tree) ==
    IF k > Len(diffs)
    THEN LET w == write_tree(st, new_tree)
         IN Returned(Ok(TreeV(w.id)), w.store)
    ELSE LET basename == diffs[k].name
             maybe_base == diffs[k].before
             maybe_side2 == diffs[k].after
             maybe_side1 == Value(side1_tree.data, basename)
         IN IF maybe_side1 = maybe_base \/ maybe_side1 = maybe_side2
            THEN MergeEntriesKeepSide1(st, dir, side1_tree, diffs, k + 1, new_tree)
            ELSE LET v == merge_tree_value(st, dir, basename, maybe_base,
                                           maybe_side1, maybe_side2)
                 IN IF v.ret.tag # "Ok" THEN v
                    ELSE MergeEntriesKeepSide1(v.store, dir, side1_tree, diffs, k + 1,
                             IF v.ret.value = None
                             THEN TreeRemove(new_tree, basename)
                             ELSE TreeSet(new_tree, basename, v.ret.value))

merge_tree_value(st, dir, basename, maybe_base, maybe_side1, maybe_side2) ==
    IF maybe_base.kind = "Tree" /\ maybe_side1.kind = "Tree"
       /\ maybe_side2.kind = "Tree"
    THEN LET subdir == Join(dir, basename)
             side1 == get_tree(st, subdir, maybe_side1.id)
             base == get_tree(st, subdir, maybe_base.id)
             side2 == get_tree(st, subdir, maybe_side2.id)
         IN IF side1.tag # "Ok" \/ base.tag # "Ok" \/ side2.tag # "Ok"
            THEN Returned(Panic, st)
            ELSE LET m == merge_trees(st, side1.value, base.value, side2.value)
                 IN IF m.ret.tag # "Ok" THEN m
                    ELSE IF m.ret.value.id = EmptyTreeId
                         THEN Returned(Ok(None), m.store)
                         ELSE Returned(Ok(TreeV(m.ret.value.id)), m.store)
    ELSE LET maybe_merged ==
                 IF maybe_base.kind = "Normal" /\ maybe_side1.kind = "Normal"
                    /\ maybe_side2.kind = "Normal"
                 THEN MergeFiles(st, maybe_base, maybe_side1, maybe_side2)
                 ELSE Returned(Ok(None), st)
         IN IF maybe_merged.ret.tag # "Ok" \/ maybe_merged.ret.value # None
            THEN maybe_merged
            ELSE simplify_conflict(st,
                     BuildConflict(maybe_base, maybe_side1, maybe_side2))

\* The for loop of merge_trees from the k-th entry of diffs on, then the
\* write of new_tree.
MergeEntries(st, dir, side1_tree, diffs, k, new_tree) ==
    IF k > Len(diffs)
    THEN LET w == write_tree(st, new_tree)
         IN Returned(Ok(TreeV(w.id)), w.store)
    ELSE LET basename == diffs[k].name
             maybe_base == diffs[k].before
             maybe_side2 == diffs[k].after
             maybe_side1 == Value(side1_tree.data, basename)
         IN IF maybe_side1 = maybe_base
            THEN \* side 1 is unchanged: use the value from side 2
                 MergeEntries(st, dir, side1_tree, diffs, k + 1,
                     IF maybe_side2 = None
                     THEN TreeRemove(new_tree, basename)
                     ELSE TreeSet(new_tree, basename, maybe_side2))
            ELSE IF maybe_side1 = maybe_side2
            THEN \* Both sides changed in the same way
                 MergeEntries(st, dir, side1_tree, diffs, k + 1, new_tree)
            ELSE \* The two sides changed in different ways
                 LET v == merge_tree_value(st, dir, basename, maybe_base,
                                           maybe_side1, maybe_side2)
                 IN IF v.ret.tag # "Ok" THEN v
                    ELSE MergeEntries(v.store, dir, side1_tree, diffs, k + 1,
                             IF v.ret.value = None
                             THEN TreeRemove(new_tree, basename)
                             ELSE TreeSet(new_tree, basename, v.ret.value))

merge_trees(st, side1_tree, base_tree, side2_tree) ==
    LET dir == base_tree.dir
    IN IF side1_tree.dir # dir \/ side2_tree.dir # dir
       THEN Returned(Panic, st)
       ELSE IF base_tree.id = side1_tree.id
       THEN Returned(Ok(TreeV(side2_tree.id)), st)
       ELSE IF base_tree.id = side2_tree.id \/ side1_tree.id = side2_tree.id
       THEN Returned(Ok(TreeV(side1_tree.id)), st)
       ELSE MergeEntries(st, dir, side1_tree,
                         diff_entries(base_tree, side2_tree), 1,
                         side1_tree.data)

---------------------------------------------------------------------------
(* Trees in the store.  A tree is described by a file map, a function from *)
(* the paths of its leaves to their values (no path a prefix of another),  *)
(* and written directory by directory, the sub-trees first, the way a tree *)
(* builder writes it.                                                      *)

Names == {1, 2}

PathsUpTo(d) == UNION {[1..k -> Names] : k \in 1..d}

\* The sets of at most n paths, none a prefix of another
RECURSIVE LeafSets(_, _)
LeafSets(paths, n) ==
    IF n = 0 THEN {{}}
    ELSE LET smaller == LeafSets(paths, n - 1)
         IN smaller \cup
            {T \cup {p} : <<T, p>> \in
                {tp \in smaller \X paths :
                    \A q \in tp[1] : ~IsPrefix(q, tp[2]) /\ ~IsPrefix(tp[2], q)}}

FileMaps(paths, vals, n) == UNION {[S -> vals] : S \in LeafSets(paths, n)}

RECURSIVE WriteDir(_, _, _)
RECURSIVE WriteDirEntries(_, _, _, _, _, _)

\* Writes the entries names[i..] of directory dir into data, then the tree.
WriteDirEntries(st, fm, dir, names, i, data) ==
    IF i > Len(names) THEN write_tree(st, data)
    ELSE LET path == Join(dir, names[i])
         IN IF path \in DOMAIN fm
            THEN WriteDirEntries(st, fm, dir, names, i + 1,
                                 TreeSet(data, names[i], fm[path]))
            ELSE LET sub == WriteDir(st, fm, path)
                 IN WriteDirEntries(sub.store, fm, dir, names, i + 1,
                                    TreeSet(data, names[i], TreeV(sub.id)))

\* Writes the tree of directory dir of file map fm: [store, id]
WriteDir(st, fm, dir) ==
    LET d == Len(dir)
        under == {p \in DOMAIN fm : Len(p) > d /\ SubSeq(p, 1, d) = dir}
    IN WriteDirEntries(st, fm, dir, SortedSeq({p[d + 1] : p \in under}), 1,
                       EmptyTreeData)

\* store.get_tree(&RepoPath::root(), id).unwrap() for an id just written
RootTree(st, id) == Tree(RepoPathRoot, id, st.trees[id])

---------------------------------------------------------------------------
(* The values conflicts are built from in the simplification runs: three   *)
(* distinct non-conflict values and references to stored conflicts (one    *)
(* id past the end of the store is a reference the store cannot read).     *)

ValA == Normal(1, FALSE)
ValB == Normal(1, TRUE)
ValC == Symlink(1)

PlainVals == {ValA, ValB, ValC}

\* A freshly initialised store: it holds the empty tree and nothing else.
EmptyStore ==
    [trees |-> <<EmptyTreeData>>, lost |-> {}, files |-> <<>>, conflicts |-> <<>>]

NoIter == <<>>

NoFlat == [ok |-> TRUE, new_removes |-> <<>>, new_adds |-> <<>>]

InitSimplify ==
    /\ store = EmptyStore
    /\ pc = "idle"
    /\ roots = <<>>
    /\ matcher = EverythingMatcher
    /\ entriesIter = NoIter
    /\ diffIter = NoIter
    /\ yielded = <<>>
    /\ conflict = ConflictDefault
    /\ flat = NoFlat
    /\ ret = Ok(None)

PartsOver(st) ==
    {ConflictPart(v) : v \in PlainVals \cup
                             {ConflictV(i) : i \in 1..(Len(st.conflicts) + 1)}}

\* One call simplify_conflict(store, &conflict), as merge_tree_value makes it.
SimplifyConflict ==
    /\ pc = "idle"
    /\ Len(store.conflicts) <= MaxConflicts
    /\ \E adds \in SeqsUpTo(PartsOver(store), MaxAdds),
          removes \in SeqsUpTo(PartsOver(store), MaxRemoves) :
          LET c == Conflict(removes, adds)
              r == simplify_conflict(store, c)
          IN /\ conflict' = c
             /\ flat' = Expand(store, c)
             /\ ret' = r.ret
             /\ store' = r.store
    /\ pc' = "returned"
    /\ UNCHANGED <<roots, matcher, entriesIter, diffIter, yielded>>

\* The caller takes the returned value; the callee's locals are gone.
ReturnToCaller ==
    /\ pc = "returned"
    /\ pc' = "idle"
    /\ conflict' = ConflictDefault
    /\ flat' = NoFlat
    /\ ret' = Ok(None)
    /\ UNCHANGED <<store, roots, matcher, entriesIter, diffIter, yielded>>

NextSimplify == SimplifyConflict \/ ReturnToCaller

SpecSimplify == InitSimplify /\ [][NextSimplify]_vars

---------------------------------------------------------------------------
(* The entries walk: tree.entries() of one tree, then next() until None.   *)

EntriesVals == {Normal(1, FALSE), Symlink(1), TreeV(EmptyTreeId)}

InitEntries ==
    \E fm \in FileMaps(PathsUpTo(MaxDepth), EntriesVals, EntriesMaxLeaves) :
        LET w == WriteDir(EmptyStore, fm, RepoPathRoot)
        IN /\ store = w.store
           /\ roots = <<RootTree(w.store, w.id)>>
           /\ entriesIter = TreeEntriesIterNew(RootTree(w.store, w.id))
           /\ pc = "entries"
           /\ matcher = EverythingMatcher
           /\ diffIter = NoIter
           /\ yielded = <<>>
           /\ conflict = ConflictDefault
           /\ flat = NoFlat
           /\ ret = Ok(None)

\* One call of next() on the entries walker.
EntriesNext ==
    /\ pc = "entries"
    /\ LET r == TreeEntriesIterNext(store, entriesIter)
       IN /\ entriesIter' = r.it
          /\ yielded' = IF r.tag = "Some" THEN Append(yielded, r.item) ELSE yielded
          /\ pc' = CASE r.tag = "Some" -> "entries"
                     [] r.tag = "None" -> "done"
                     [] OTHER -> "panicked"
          /\ ret' = [tag |-> r.tag, value |-> r.item.after]
    /\ UNCHANGED <<store, roots, matcher, diffIter, conflict, flat>>

SpecEntries == InitEntries /\ [][EntriesNext]_vars

---------------------------------------------------------------------------
(* The diff walk: tree1.diff(&tree2, matcher), then next() until None.     *)

DiffVals == {Normal(1, FALSE), Symlink(1)}

DiffFileMaps == FileMaps(PathsUpTo(MaxDepth), DiffVals, DiffMaxLeaves)

Matchers == {EverythingMatcher, FilesMatcher({<<1>>, <<2, 1>>})}

InitDiff ==
    \E fm1 \in DiffFileMaps, fm2 \in DiffFileMaps, m \in Matchers :
        /\ Cardinality(DOMAIN fm1) + Cardinality(DOMAIN fm2) <= DiffMaxTotal
        /\ LET w1 == WriteDir(EmptyStore, fm1, RepoPathRoot)
               w2 == WriteDir(w1.store, fm2, RepoPathRoot)
               tree1 == RootTree(w2.store, w1.id)
               tree2 == RootTree(w2.store, w2.id)
           IN /\ store = w2.store
              /\ roots = <<tree1, tree2>>
              /\ matcher = m
              /\ diffIter = recursive_tree_diff(tree1, tree2)
              /\ pc = "diff"
              /\ entriesIter = NoIter
              /\ yielded = <<>>
              /\ conflict = ConflictDefault
              /\ flat = NoFlat
              /\ ret = Ok(None)

\* One call of next() on the diff walker.
DiffNext ==
    /\ pc = "diff"
    /\ LET r == TreeDiffIteratorNext(store, matcher, diffIter, 1)
       IN /\ diffIter' = r.it
          /\ yielded' = IF r.tag = "Some" THEN Append(yielded, r.item) ELSE yielded
          /\ pc' = CASE r.tag = "Some" -> "diff"
                     [] r.tag = "None" -> "done"
                     [] OTHER -> "panicked"
          /\ ret' = [tag |-> r.tag, value |-> r.item.after]
    /\ UNCHANGED <<store, roots, matcher, entriesIter, conflict, flat>>

SpecDiff == InitDiff /\ [][DiffNext]_vars

\* diff run to its end: the items next() yields until it stops
RECURSIVE DrainDiff(_, _, _)
DrainDiff(st, m, frames) ==
    LET r == TreeDiffIteratorNext(st, m, frames, 1)
    IN IF r.tag = "Some" THEN <<r.item>> \o DrainDiff(st, m, r.it) ELSE <<>>

---------------------------------------------------------------------------
(* The merge: merge_trees(&side1, &base, &side2) of three trees at the     *)
(* root.  The store holds four files; the trees come from two families:    *)
(* trees of at most MergeMaxLeaves leaves over all the file values, and    *)
(* trees of up to MergeWideLeaves leaves (MergeWideTotal in the three      *)
(* together) over two of them.                                             *)

InitialFiles == <<<<0, 0>>, <<1, 0>>, <<0, 1>>, <<2, 0>>>>

MergeStore == [EmptyStore EXCEPT !.files = InitialFiles]

RichVals == {Normal(1, FALSE), Normal(1, TRUE), Normal(2, FALSE),
             Normal(3, TRUE), Normal(4, FALSE)}

WideVals == {Normal(1, FALSE), Normal(2, FALSE)}

RichMaps == FileMaps(PathsUpTo(MergeDepth), RichVals, MergeMaxLeaves)

WideMaps == FileMaps(PathsUpTo(MergeDepth), WideVals, MergeWideLeaves)

MergeInputs ==
    (RichMaps \X RichMaps \X RichMaps) \cup
    {t \in WideMaps \X WideMaps \X WideMaps :
        Cardinality(DOMAIN t[1]) + Cardinality(DOMAIN t[2])
            + Cardinality(DOMAIN t[3]) <= MergeWideTotal}

InitMerge ==
    \E t \in MergeInputs :
        LET w1 == WriteDir(MergeStore, t[1], RepoPathRoot)
            w2 == WriteDir(w1.store, t[2], RepoPathRoot)
            w3 == WriteDir(w2.store, t[3], RepoPathRoot)
        IN /\ store = w3.store
           /\ roots = <<RootTree(w3.store, w1.id), RootTree(w3.store, w2.id),
                        RootTree(w3.store, w3.id)>>
           /\ pc = "merge"
           /\ matcher = EverythingMatcher
           /\ entriesIter = NoIter
           /\ diffIter = NoIter
           /\ yielded = <<>>
           /\ conflict = ConflictDefault
           /\ flat = NoFlat
           /\ ret = Ok(None)

\* One call merge_trees(&side1_tree, &base_tree, &side2_tree).
MergeTrees ==
    /\ pc = "merge"
    /\ LET r == merge_trees(store, roots[1], roots[2], roots[3])
       IN /\ store' = r.store
          /\ ret' = r.ret
          /\ pc' = IF r.ret.tag = "Panic" THEN "panicked" ELSE "returned"
    /\ UNCHANGED <<roots, matcher, entriesIter, diffIter, yielded, conflict, flat>>

SpecMerge == InitMerge /\ [][MergeTrees]_vars

---------------------------------------------------------------------------
(* The merge of one cell: three trees that hold, under the same name,      *)
(* three different regular files (any of the stored contents, either       *)
(* executable bit).                                                        *)

CellName == CHOOSE n \in Names : \A m \in Names : n <= m

CellVals == {Normal(i, x) : i \in 1..Len(InitialFiles), x \in BOOLEAN}

CellTree(v) == [p \in {<<CellName>>} |-> v]

InitCell ==
    \E b \in CellVals, s1 \in CellVals, s2 \in CellVals :
        /\ b # s1 /\ b # s2 /\ s1 # s2
        /\ LET w1 == WriteDir(MergeStore, CellTree(s1), RepoPathRoot)
               w2 == WriteDir(w1.store, CellTree(b), RepoPathRoot)
               w3 == WriteDir(w2.store, CellTree(s2), RepoPathRoot)
           IN /\ store = w3.store
              /\ roots = <<RootTree(w3.store, w1.id), RootTree(w3.store, w2.id),
                           RootTree(w3.store, w3.id)>>
              /\ pc = "merge"
              /\ matcher = EverythingMatcher
              /\ entriesIter = NoIter
              /\ diffIter = NoIter
              /\ yielded = <<>>
              /\ conflict = ConflictDefault
              /\ flat = NoFlat
              /\ ret = Ok(None)

SpecCell == InitCell /\ [][MergeTrees]_vars

---------------------------------------------------------------------------
(* Calls against a store that cannot read one of its trees: sub_tree, an   *)
(* entries walk, a diff walk or a merge of trees hydrated beforehand.      *)

FaultMaps == FileMaps(PathsUpTo(MergeDepth), WideVals, MergeMaxLeaves)

InitFault ==
    \E t \in FaultMaps \X FaultMaps \X FaultMaps,
       mode \in {"sub_tree", "entries", "diff", "merge"} :
        LET w1 == WriteDir(MergeStore, t[1], RepoPathRoot)
            w2 == WriteDir(w1.store, t[2], RepoPathRoot)
            w3 == WriteDir(w2.store, t[3], RepoPathRoot)
            tree1 == RootTree(w3.store, w1.id)
            tree2 == RootTree(w3.store, w2.id)
            tree3 == RootTree(w3.store, w3.id)
        IN /\ \E unreadable \in {{}} \cup {{i} : i \in 1..Len(w3.store.trees)} :
                 store = [w3.store EXCEPT !.lost = unreadable]
           /\ roots = <<tree1, tree2, tree3>>
           /\ pc = mode
           /\ matcher = EverythingMatcher
           /\ entriesIter = TreeEntriesIterNew(tree1)
           /\ diffIter = recursive_tree_diff(tree1, tree2)
           /\ yielded = <<>>
           /\ conflict = ConflictDefault
           /\ flat = NoFlat
           /\ ret = Ok(None)

\* One call roots[1].sub_tree(name).
SubTree ==
    /\ pc = "sub_tree"
    /\ \E name \in Names :
          LET r == sub_tree(store, roots[1], name)
          IN /\ ret' = [tag |-> r.tag,
                        value |-> IF r.tag = "Some" THEN TreeV(r.value.id) ELSE None]
             /\ pc' = IF r.tag = "Panic" THEN "panicked" ELSE "returned"
    /\ UNCHANGED <<store, roots, matcher, entriesIter, diffIter, yielded,
                   conflict, flat>>

NextFault == SubTree \/ EntriesNext \/ DiffNext \/ MergeTrees

SpecFault == InitFault /\ [][NextFault]_vars

---------------------------------------------------------------------------
(* Properties of simplify_conflict (SpecSimplify).                         *)

SimplifyReturned == pc = "returned" /\ ret.tag = "Ok"

\* The lists a call is left with after the cancellation
Cancelled(f) == CancelPairs(f.new_adds, f.new_removes, 1)

Parts(vs) == [i \in DOMAIN vs |-> ConflictPart(vs[i])]

\* {+a -b +{+b -a +c}} with the inner conflict stored under id
IsRoundTrip(c, st, a, b, cc) ==
    /\ Len(c.adds) = 2 /\ Len(c.removes) = 1
    /\ c.adds[1].value = a
    /\ c.removes[1].value = b
    /\ c.adds[2].value.kind = "Conflict"
    /\ c.adds[2].value.id \in 1..Len(st.conflicts)
    /\ st.conflicts[c.adds[2].value.id] = Conflict(Parts(<<a>>), Parts(<<b, cc>>))

DistinctPlain ==
    {t \in PlainVals \X PlainVals \X PlainVals :
        t[1] # t[2] /\ t[1] # t[3] /\ t[2] # t[3]}

\* C3: simplifying {+A -B +{+B -A +C}}, A, B, C distinct non-conflict
\* values, returns the plain value C and leaves the store as it was.
C3_RoundTripYieldsC ==
    [][\A t \in DistinctPlain :
          (pc = "idle" /\ pc' = "returned"
           /\ IsRoundTrip(conflict', store, t[1], t[2], t[3]))
          => (ret' = Ok(t[3]) /\ store' = store)]_vars

C3_Witness ==
    /\ pc = "returned"
    /\ IsRoundTrip(conflict, store, ValA, ValB, ValC)
    /\ ret = Ok(ValC)

\* What a call returned, as the conflict it stands for
AsConflict(st, v) ==
    IF v = None THEN ConflictDefault
    ELSE IF v.kind = "Conflict" THEN st.conflicts[v.id]
    ELSE Conflict(<<>>, Parts(<<v>>))

\* C4: simplifying what a simplification produced returns the same result,
\* writes nothing, and leaves the adds and removes as they are, in order.
C4_SimplifyIdempotent ==
    SimplifyReturned =>
        LET again == AsConflict(store, ret.value)
            second == simplify_conflict(store, again)
            lists == Cancelled(Expand(store, again))
        IN /\ second.ret = ret
           /\ second.store = store
           /\ lists.new_adds = again.adds
           /\ lists.new_removes = again.removes

\* a call that cancelled two pairs and stored what was left
C4_Witness ==
    /\ SimplifyReturned
    /\ ret.value.kind = "Conflict"
    /\ Len(flat.new_adds) >= Len(Cancelled(flat).new_adds) + 2
    /\ conflict # AsConflict(store, ret.value)

\* {-b +{-a +b +c}} with the inner conflict stored
IsNestedCancel(c, st, a, b, cc) ==
    /\ Len(c.adds) = 1 /\ Len(c.removes) = 1
    /\ c.removes[1].value = b
    /\ c.adds[1].value.kind = "Conflict"
    /\ c.adds[1].value.id \in 1..Len(st.conflicts)
    /\ st.conflicts[c.adds[1].value.id] = Conflict(Parts(<<a>>), Parts(<<b, cc>>))

\* What C10 says of the call on {removes=[B], adds=[{removes=[A], adds=[B, C]}]},
\* with the expanded removes given as new_removes
NestedCancelOutcome(a, b, cc, new_removes) ==
    /\ flat.ok
    /\ flat.new_removes = new_removes
    /\ flat.new_adds = Parts(<<b, cc>>)
    /\ Cancelled(flat) = [new_removes |-> Parts(<<a>>), new_adds |-> Parts(<<cc>>)]
    /\ ret.tag = "Ok"
    /\ ret.value.kind = "Conflict"
    /\ ret.value.id \in 1..Len(store.conflicts)
    /\ store.conflicts[ret.value.id] = Conflict(Parts(<<a>>), Parts(<<cc>>))

\* C10 as stated: the expansion gives removes = [B, A], adds = [B, C], the
\* cancellation removes = [A], adds = [C], which is stored and returned.
C10_AsStated ==
    \A t \in DistinctPlain :
        (pc = "returned" /\ IsNestedCancel(conflict, store, t[1], t[2], t[3]))
        => NestedCancelOutcome(t[1], t[2], t[3], Parts(<<t[2], t[1]>>))

\* C10 amended: the expansion gives removes = [A, B] (the nested conflict's
\* removes first, the parts of adds being expanded before those of removes),
\* adds = [B, C]; the cancellation removes = [A], adds = [C], stored and
\* returned as Conflict(id).
C10_NestedCancel ==
    \A t \in DistinctPlain :
        (pc = "returned" /\ IsNestedCancel(conflict, store, t[1], t[2], t[3]))
        => NestedCancelOutcome(t[1], t[2], t[3], Parts(<<t[1], t[2]>>))

C10_Witness ==
    /\ pc = "returned"
    /\ IsNestedCancel(conflict, store, ValA, ValB, ValC)
    /\ ret.value.kind = "Conflict"
    /\ store.conflicts[ret.value.id] = Conflict(Parts(<<ValA>>), Parts(<<ValC>>))

---------------------------------------------------------------------------
(* Properties of merge_trees (SpecMerge): roots = <<side1, base, side2>>.  *)

side1_root == roots[1]
base_root == roots[2]
side2_root == roots[3]

MergeCalled == pc = "merge" /\ pc' # "merge"

\* C1: merge_trees returns side2's id when base.id = side1.id, and side1's
\* id when base.id = side2.id or side1.id = side2.id; either way the store
\* is left as it was.
C1_FastPaths ==
    [][MergeCalled =>
          /\ base_root.id = side1_root.id
                => (ret' = Ok(TreeV(side2_root.id)) /\ store' = store)
          /\ (base_root.id = side2_root.id \/ side1_root.id = side2_root.id)
                => (ret' = Ok(TreeV(side1_root.id)) /\ store' = store)]_vars

\* a returned merge whose base is side 1 and whose side 2 is another tree
C1_Witness ==
    /\ pc = "returned"
    /\ Len(roots) = 3
    /\ base_root.id = side1_root.id
    /\ side2_root.id # side1_root.id
    /\ ret = Ok(TreeV(side2_root.id))

NoFastPath ==
    /\ base_root.id # side1_root.id
    /\ base_root.id # side2_root.id
    /\ side1_root.id # side2_root.id

\* The entry the merge rule gives name n, read in store st
RuleEntry(st, n) ==
    LET b == Value(base_root.data, n)
        s1 == Value(side1_root.data, n)
        s2 == Value(side2_root.data, n)
    IN IF b = s2 THEN s1
       ELSE IF s1 = b THEN s2
       ELSE IF s1 = s2 THEN s1
       ELSE merge_tree_value(st, RepoPathRoot, n, b, s1, s2).ret.value

MergedTree == store.trees[ret.value.id]

\* C2: off the shortcuts, the tree merge_trees writes has at every name n
\* side1's entry (or none) if base and side2 agree at n, else side2's entry
\* (or none) if side1 agrees with base, else side1's entry if it agrees with
\* side2, else the result of the per-cell merge; it has no other name.
C2_PerNameRule ==
    (pc = "returned" /\ Len(roots) = 3 /\ NoFastPath /\ ret.tag = "Ok") =>
        /\ ret.value.kind = "Tree"
        /\ ret.value.id \in 1..Len(store.trees)
        /\ DOMAIN MergedTree \subseteq Names
        /\ \A n \in Names : Value(MergedTree, n) = RuleEntry(store, n)

\* a merge that took side 2's entry at one name and stored a conflict for
\* another
C2_Witness ==
    /\ pc = "returned" /\ Len(roots) = 3 /\ NoFastPath /\ ret.tag = "Ok"
    /\ \E n, m \in Names :
          /\ Value(base_root.data, m) = Value(side1_root.data, m)
          /\ Value(side2_root.data, m) # Value(base_root.data, m)
          /\ Value(MergedTree, m) = Value(side2_root.data, m)
          /\ Value(side1_root.data, n) # Value(base_root.data, n)
          /\ Value(side2_root.data, n) # Value(base_root.data, n)
          /\ Value(side1_root.data, n) # Value(side2_root.data, n)
          /\ Value(MergedTree, n).kind = "Conflict"

---------------------------------------------------------------------------
(* Properties of the walkers (SpecEntries, SpecDiff, SpecFault).           *)

AllPaths == PathsUpTo(MaxDepth)

\* The non-tree value tree has at path, None when it has none there
Leaf(st, tree, path) ==
    LET v == path_value(st, tree, path)
    IN IF v.tag = "Some" /\ v.value.kind # "Tree" THEN v.value ELSE None

IsTreeAt(st, tree, path) ==
    LET v == path_value(st, tree, path)
    IN v.tag = "Some" /\ v.value.kind = "Tree"

Under(p, q) == Len(p) < Len(q) /\ SubSeq(q, 1, Len(p)) = p

\* C5: in what the diff walker has emitted, when a directory at p is
\* replaced by a non-tree value the Removed events under p all come before
\* the Added at p, and when a non-tree value at p is replaced by a directory
\* the Removed at p comes before the Added events under p; at any depth,
\* with no event outside p between them.
C5_ReplacementOrder ==
    \A i \in DOMAIN yielded :
        LET p == yielded[i].path
        IN /\ (yielded[i].kind = "Added" /\ IsTreeAt(store, roots[1], p))
                => \A j \in DOMAIN yielded :
                      Under(p, yielded[j].path)
                      => /\ j < i
                         /\ yielded[j].kind = "Removed"
                         /\ \A k \in j..i : IsPrefix(p, yielded[k].path)
           /\ (yielded[i].kind = "Removed" /\ IsTreeAt(store, roots[2], p))
                => \A j \in DOMAIN yielded :
                      Under(p, yielded[j].path)
                      => /\ j > i
                         /\ yielded[j].kind = "Added"
                         /\ \A k \in i..j : IsPrefix(p, yielded[k].path)

\* a finished walk over a directory two levels down, holding two files,
\* that a file replaced
C5_Witness ==
    /\ pc = "done" /\ Len(roots) = 2
    /\ \E i \in DOMAIN yielded :
          /\ yielded[i].kind = "Added"
          /\ Len(yielded[i].path) = 2
          /\ IsTreeAt(store, roots[1], yielded[i].path)
          /\ i >= 3
          /\ Under(yielded[i].path, yielded[i - 1].path)
          /\ Under(yielded[i].path, yielded[i - 2].path)

EntriesLeaves ==
    {<<p, Leaf(store, roots[1], p)>> : p \in
        {q \in AllPaths : Leaf(store, roots[1], q) # None}}

\* C6: the entries walker yields every non-tree leaf under the tree once,
\* with its full path and value, never a sub-tree, in strictly ascending
\* path order, and stops with an empty stack.
C6_EntriesWalk ==
    /\ \A i \in DOMAIN yielded :
          /\ yielded[i].after.kind # "Tree"
          /\ <<yielded[i].path, yielded[i].after>> \in EntriesLeaves
    /\ \A i, j \in DOMAIN yielded :
          i < j => PathLess(yielded[i].path, yielded[j].path)
    /\ pc = "done" =>
          /\ {<<yielded[i].path, yielded[i].after>> : i \in DOMAIN yielded}
                = EntriesLeaves
          /\ ret.tag = "None"
          /\ entriesIter.stack = <<>>

\* a finished walk that went three levels down and through an empty tree
C6_Witness ==
    /\ pc = "done" /\ Len(roots) = 1 /\ diffIter = NoIter
    /\ Len(yielded) = 2
    /\ \E i \in DOMAIN yielded : Len(yielded[i].path) = MaxDepth
    /\ \E p \in AllPaths :
          /\ IsTreeAt(store, roots[1], p)
          /\ path_value(store, roots[1], p).value.id = EmptyTreeId

Flip(item) ==
    DiffItem(item.path,
             CASE item.kind = "Added" -> "Removed"
               [] item.kind = "Removed" -> "Added"
               [] OTHER -> item.kind,
             item.after, item.before)

Count(s, x) == Cardinality({i \in DOMAIN s : s[i] = x})

SameBag(s, t) == \A x \in Range(s) \cup Range(t) : Count(s, x) = Count(t, x)

\* C7: diff(t2, t1, EverythingMatcher) emits the events of
\* diff(t1, t2, EverythingMatcher) with Added and Removed exchanged and the
\* sides of Modified swapped, as multisets.
C7_DiffSymmetric ==
    (pc = "done" /\ Len(roots) = 2 /\ matcher = EverythingMatcher) =>
        SameBag([i \in DOMAIN yielded |-> Flip(yielded[i])],
                DrainDiff(store, matcher,
                          recursive_tree_diff(roots[2], roots[1])))

\* a finished walk that emitted the removal of a file a directory replaced
\* and two additions inside that directory
C7_Witness ==
    /\ pc = "done" /\ Len(roots) = 2 /\ matcher = EverythingMatcher
    /\ Len(yielded) = 3
    /\ {yielded[i].kind : i \in DOMAIN yielded} = {"Added", "Removed"}
    /\ \E i \in DOMAIN yielded :
          /\ yielded[i].kind = "Removed"
          /\ IsTreeAt(store, roots[2], yielded[i].path)

\* The events the leaves of the two trees call for under matcher m
LeafEvent(p, a, b) ==
    IF a = None THEN Added(p, b)
    ELSE IF b = None THEN Removed(p, a)
    ELSE Modified(p, a, b)

LeafEvents(st, t1, t2, m) ==
    {LeafEvent(p, Leaf(st, t1, p), Leaf(st, t2, p)) : p \in
        {q \in AllPaths : Matches(m, q) /\ Leaf(st, t1, q) # Leaf(st, t2, q)}}

\* C8: diff(t1, t2, m) emits one event at each path m matches whose leaf
\* differs between t1 and t2 (Modified, Removed or Added by which tree has
\* a leaf there), whether or not m matches the directories above it, and
\* no other event; diff(t, t, m) emits nothing.
C8_DiffExactlyMatchedLeaves ==
    Len(roots) = 2 =>
        /\ \A i \in DOMAIN yielded :
              yielded[i] \in LeafEvents(store, roots[1], roots[2], matcher)
        /\ \A i, j \in DOMAIN yielded : yielded[i] = yielded[j] => i = j
        /\ pc = "done" =>
              Range(yielded) = LeafEvents(store, roots[1], roots[2], matcher)
        /\ roots[1].id = roots[2].id => (yielded = <<>> /\ pc # "panicked")

\* a finished walk under a matcher that does not match directory 2: it
\* emitted the change at 2/1 and kept quiet about the one at 2/2
C8_Witness ==
    /\ pc = "done" /\ Len(roots) = 2
    /\ ~Matches(matcher, <<2>>)
    /\ \E i \in DOMAIN yielded :
          yielded[i].path = <<2, 1>> /\ yielded[i].kind = "Modified"
    /\ Leaf(store, roots[1], <<2, 2>>) # Leaf(store, roots[2], <<2, 2>>)

\* C9 as stated: a get_tree failure during sub_tree, a walk or a merge
\* reaches the caller as an error value; no call aborts.
C9_HydrationErrorSurfaced ==
    ret.tag # "Panic" /\ pc # "panicked"

---------------------------------------------------------------------------
(* Properties of the phases of simplify_conflict (SpecSimplify).           *)

SimplifyCalled == pc = "idle" /\ pc' = "returned"

\* C11: with the lists left after expansion and cancellation,
\* simplify_conflict returns None exactly when adds is empty (removes may
\* hold parts); returns the one add's value, writing nothing, exactly when
\* removes is empty and adds has one part; and otherwise returns
\* Conflict(id) of the stored conflict made of the two lists.
C11_CollapseRules ==
    [][(SimplifyCalled /\ flat'.ok) =>
          LET lists == Cancelled(flat')
              single == lists.new_removes = <<>> /\ Len(lists.new_adds) = 1
          IN /\ ret'.tag = "Ok"
             /\ ret'.value = None <=> lists.new_adds = <<>>
             /\ ret'.value.kind \notin {"None", "Conflict"} <=> single
             /\ lists.new_adds = <<>> => store' = store
             /\ single => (ret'.value = lists.new_adds[1].value /\ store' = store)
             /\ (lists.new_adds # <<>> /\ ~single) =>
                   /\ ret'.value.kind = "Conflict"
                   /\ ret'.value.id \in 1..Len(store'.conflicts)
                   /\ store'.conflicts[ret'.value.id]
                        = Conflict(lists.new_removes, lists.new_adds)
                   /\ \A i \in 1..Len(store.conflicts) :
                         store'.conflicts[i] = store.conflicts[i]]_vars

\* a call left with no add and one remove, which returned None
C11_Witness ==
    /\ pc = "returned" /\ flat.ok
    /\ Cancelled(flat).new_adds = <<>>
    /\ Len(Cancelled(flat).new_removes) = 1
    /\ Len(flat.new_adds) >= 1
    /\ ret = Ok(None)

---------------------------------------------------------------------------
(* Properties of the merge of one cell (SpecCell).                         *)

base_cell == Value(base_root.data, CellName)
side1_cell == Value(side1_root.data, CellName)
side2_cell == Value(side2_root.data, CellName)

\* The flag the rule gives the merged file
RuleExecutable ==
    IF base_cell.executable = side1_cell.executable THEN side2_cell.executable
    ELSE IF base_cell.executable = side2_cell.executable
    THEN side1_cell.executable
    ELSE side1_cell.executable

CellContentMerge ==
    files_merge(store.files[base_cell.id], store.files[side1_cell.id],
                store.files[side2_cell.id])

merged_cell == Value(MergedTree, CellName)

\* C12: merging three regular files, the merged flag is side2's if base's
\* equals side1's, else side1's if base's equals side2's, else side1's, the
\* two sides then agreeing (the assertion fails for no three flags); the
\* written file carries the flag when the content merge is Resolved, and a
\* Conflict result leaves a conflict of the three sides, the flag dropped.
C12_ExecutableFlag ==
    /\ pc # "panicked" /\ ret.tag # "Panic"
    /\ (pc = "merge" /\ base_cell.executable # side1_cell.executable
        /\ base_cell.executable # side2_cell.executable)
          => side1_cell.executable = side2_cell.executable
    /\ pc = "returned" =>
          /\ ret.tag = "Ok"
          /\ CellContentMerge.tag = "Resolved" <=> merged_cell.kind = "Normal"
          /\ CellContentMerge.tag = "Resolved" =>
                /\ merged_cell.executable = RuleExecutable
                /\ store.files[merged_cell.id] = CellContentMerge.content
          /\ CellContentMerge.tag = "Conflict" =>
                /\ merged_cell.kind = "Conflict"
                /\ store.conflicts[merged_cell.id]
                     = Conflict(<<ConflictPart(base_cell)>>,
                                <<ConflictPart(side1_cell), ConflictPart(side2_cell)>>)

\* a cell whose base flag differs from both sides' and whose contents merged
C12_Witness ==
    /\ pc = "returned"
    /\ base_cell.kind = "Normal"
    /\ base_cell.executable # side1_cell.executable
    /\ base_cell.executable # side2_cell.executable
    /\ CellContentMerge.tag = "Resolved"
    /\ merged_cell = Normal(Len(InitialFiles) + 1, side1_cell.executable)

CountVal(parts, v) == Cardinality({i \in DOMAIN parts : parts[i].value = v})

Min(a, b) == IF a <= b THEN a ELSE b

Values(parts) == {parts[i].value : i \in DOMAIN parts}

\* s is t with some of its elements deleted
RECURSIVE IsSubseq(_, _)
IsSubseq(s, t) ==
    IF s = <<>> THEN TRUE
    ELSE IF t = <<>> THEN FALSE
    ELSE IF Head(s) = Head(t) THEN IsSubseq(Tail(s), Tail(t))
    ELSE IsSubseq(s, Tail(t))

\* "While a value appears in both adds and removes, delete one occurrence
\* from each", the occurrence deleted being the first one in each list
RECURSIVE CancelToFixpoint(_, _)
CancelToFixpoint(adds, removes) ==
    IF Values(adds) \cap Values(removes) = {}
    THEN [new_removes |-> removes, new_adds |-> adds]
    ELSE LET i == CHOOSE k \in DOMAIN adds :
                      /\ adds[k].value \in Values(removes)
                      /\ \A h \in 1..(k - 1) : adds[h].value \notin Values(removes)
             j == CHOOSE k \in DOMAIN removes :
                      /\ removes[k].value = adds[i].value
                      /\ \A h \in 1..(k - 1) : removes[h].value # adds[i].value
         IN CancelToFixpoint(RemoveAt(adds, i), RemoveAt(removes, j))

\* C13: the one sweep of the cancellation leaves the lists that deleting
\* one occurrence from each list, while a value is in both, leaves: no
\* value is in both lists, of every value v min(#adds(v), #removes(v))
\* occurrences are gone from each list, and the parts that stay keep their
\* order.
C13_SweepIsFixpoint ==
    (pc = "returned" /\ flat.ok) =>
        LET lists == Cancelled(flat)
        IN /\ lists = CancelToFixpoint(flat.new_adds, flat.new_removes)
           /\ Values(lists.new_adds) \cap Values(lists.new_removes) = {}
           /\ \A v \in Values(flat.new_adds) \cup Values(flat.new_removes) :
                 LET gone == Min(CountVal(flat.new_adds, v),
                                 CountVal(flat.new_removes, v))
                 IN /\ CountVal(lists.new_adds, v) + gone
                         = CountVal(flat.new_adds, v)
                    /\ CountVal(lists.new_removes, v) + gone
                         = CountVal(flat.new_removes, v)
           /\ IsSubseq(lists.new_adds, flat.new_adds)
           /\ IsSubseq(lists.new_removes, flat.new_removes)

\* a call whose expanded lists hold a value twice in adds and once in
\* removes, and another value once in each
C13_Witness ==
    /\ pc = "returned" /\ flat.ok
    /\ \E v, w \in Values(flat.new_adds) :
          /\ v # w
          /\ CountVal(flat.new_adds, v) = 2
          /\ CountVal(flat.new_removes, v) = 1
          /\ CountVal(flat.new_removes, w) = 1
          /\ CountVal(Cancelled(flat).new_adds, v) = 1
          /\ CountVal(Cancelled(flat).new_adds, w) = 0

HasNestedPart(c) ==
    \/ \E i \in DOMAIN c.adds : c.adds[i].value.kind = "Conflict"
    \/ \E i \in DOMAIN c.removes : c.removes[i].value.kind = "Conflict"

\* C14: no conflict simplify_conflict has written to the store holds a
\* part whose value is Conflict(id), and the value it returns in place of a
\* single add is no Conflict(id), whatever stored conflicts the parts of its
\* input refer to.
C14_NoNestedConflicts ==
    /\ \A i \in 1..Len(store.conflicts) : ~HasNestedPart(store.conflicts[i])
    /\ (pc = "returned" /\ ret.tag = "Ok" /\ ret.value.kind = "Conflict") =>
          /\ ret.value.id \in 1..Len(store.conflicts)
          /\ ~HasNestedPart(store.conflicts[ret.value.id])
    /\ (pc = "returned" /\ flat.ok /\ Cancelled(flat).new_removes = <<>>
        /\ Len(Cancelled(flat).new_adds) = 1) =>
          ret.value.kind \notin {"Conflict", "None"}

\* a call on a conflict with a nested part that wrote a second conflict
C14_Witness ==
    /\ pc = "returned" /\ flat.ok
    /\ HasNestedPart(conflict)
    /\ Len(store.conflicts) = 2
    /\ ret = Ok(ConflictV(2))

\* The stored conflict a nested part refers to
Referred(part) == store.conflicts[part.value.id]

NestedIn(parts) == {i \in DOMAIN parts : parts[i].value.kind = "Conflict"}

\* How often v is in the adds (side = "adds") or the removes of the
\* conflicts the nested parts of parts refer to
NestedCount(parts, side, v) ==
    Cardinality(UNION {
        {<<i, j>> : j \in {k \in DOMAIN Referred(parts[i])[side] :
                             Referred(parts[i])[side][k].value = v}}
        : i \in NestedIn(parts)})

\* C15: the expansion puts a nested conflict of adds with its signs kept
\* (its adds into adds, its removes into removes) and a nested conflict of
\* removes with its signs inverted (its adds into removes, its removes into
\* adds), and leaves every other part on its side; so for every
\* non-conflict value the adds and removes counts, and their difference,
\* are those of the one-level expansion of the input.
C15_FlattenSigns ==
    (pc = "returned" /\ flat.ok) =>
        \A v \in PlainVals :
            LET plus == CountVal(conflict.adds, v)
                          + NestedCount(conflict.adds, "adds", v)
                          + NestedCount(conflict.removes, "removes", v)
                minus == CountVal(conflict.removes, v)
                           + NestedCount(conflict.adds, "removes", v)
                           + NestedCount(conflict.removes, "adds", v)
            IN /\ CountVal(flat.new_adds, v) = plus
               /\ CountVal(flat.new_removes, v) = minus
               /\ CountVal(flat.new_adds, v) + minus
                    = CountVal(flat.new_removes, v) + plus

\* a call whose removes hold a reference to a stored conflict with two adds
\* and one remove, and whose adds hold a plain value and a reference
C15_Witness ==
    /\ pc = "returned" /\ flat.ok
    /\ Len(conflict.removes) = 1 /\ Len(conflict.adds) = 2
    /\ NestedIn(conflict.removes) = {1}
    /\ Len(Referred(conflict.removes[1]).adds) = 2
    /\ Len(Referred(conflict.removes[1]).removes) = 1
    /\ Cardinality(NestedIn(conflict.adds)) = 1
    /\ Len(flat.new_removes) = 3
    /\ Len(flat.new_adds) = 4

===========================================================================
